---- MODULE Spec2Model ----
(***************************************************************************)
(* Orbit correction of ocelot/cpbd/orbit_correction.py: the three solvers  *)
(* (OrbitSVD, MICADO, LInfinityNorm), Orbit.correction and the response    *)
(* matrix measurement routines.                                            *)
(*                                                                         *)
(* Numbers are exact rationals <<num, den>> (den > 0, lowest terms).       *)
(* A matrix is a record [nr |-> rows, cols |-> sequence of columns], each  *)
(* column a sequence of nr rationals, so that a matrix of shape (nr, 0)    *)
(* exists, as numpy's np.empty((bpm_num, 0)) does.                         *)
(*                                                                         *)
(* The singular value decomposition is computed exactly for the matrices   *)
(* whose columns are pairwise orthogonal: their singular values are the    *)
(* column norms and their right singular vectors are unit vectors.  Every  *)
(* matrix the specifications hand to the decomposition is of that class.   *)
(***************************************************************************)
EXTENDS Integers, Sequences, FiniteSets, TLC

\* ------------------------------------------------------------------ bounds
MaxBpm == 2
MaxCalls == 1
MaxHcor == 2
MaxVcor == 1
MaxGain == 2
MaxEntries == 4

\* --------------------------------------------------------------- rationals
Abs(n) == IF n < 0 THEN -n ELSE n

RECURSIVE Gcd(_, _)
Gcd(a, b) == IF b = 0 THEN a ELSE Gcd(b, a % b)

Rat(n, d) ==
    LET g == Gcd(Abs(n), Abs(d))
        s == IF d < 0 THEN -1 ELSE 1
    IN <<(s * n) \div g, (s * d) \div g>>

RI(n) == <<n, 1>>
RZero == RI(0)
ROne == RI(1)
RAdd(p, q) ==
    IF p[1] = 0 THEN q ELSE IF q[1] = 0 THEN p
    ELSE Rat(p[1] * q[2] + q[1] * p[2], p[2] * q[2])
RNeg(p) == <<-p[1], p[2]>>
RSub(p, q) == RAdd(p, RNeg(q))
RMul(p, q) ==
    IF p[1] = 0 \/ q[1] = 0 THEN <<0, 1>>
    ELSE IF p = <<1, 1>> THEN q ELSE IF q = <<1, 1>> THEN p
    ELSE Rat(p[1] * q[1], p[2] * q[2])
RDiv(p, q) == Rat(p[1] * q[2], p[2] * q[1])
RLe(p, q) == p[1] * q[2] <= q[1] * p[2]
RLt(p, q) == p[1] * q[2] < q[1] * p[2]
RAbs(p) == <<Abs(p[1]), p[2]>>
RMax(p, q) == IF RLe(p, q) THEN q ELSE p

\* ----------------------------------------------------------------- vectors
\* the sequence f[1], ..., f[n] of a function on 1..n, as a tuple
Tup(f) == f \o <<>>

RECURSIVE SumUpTo(_, _)
SumUpTo(v, n) == IF n = 0 THEN RZero ELSE RAdd(v[n], SumUpTo(v, n - 1))
SumSeq(v) == SumUpTo(v, Len(v))

RECURSIVE DotUpTo(_, _, _)
DotUpTo(u, v, n) ==
    IF n = 0 THEN RZero ELSE RAdd(RMul(u[n], v[n]), DotUpTo(u, v, n - 1))
Dot(u, v) == DotUpTo(u, v, Len(u))
Scale(c, v) == Tup([i \in 1..Len(v) |-> RMul(c, v[i])])
VSub(u, v) == Tup([i \in 1..Len(u) |-> RSub(u[i], v[i])])
Zeros(n) == Tup([i \in 1..n |-> RZero])
IsZeroVec(v) == \A i \in 1..Len(v) : v[i] = RZero

\* ---------------------------------------------------------------- matrices
Mat(nr, cols) == [nr |-> nr, cols |-> cols]
NCols(M) == Len(M.cols)
\* np.dot(M, a) for a vector a with one component per column
MatVec(M, a) ==
    Tup([r \in 1..M.nr |->
        SumSeq(Tup([j \in 1..NCols(M) |-> RMul(M.cols[j][r], a[j])]))])
\* c * M
MScale(c, M) == Mat(M.nr, Tup([j \in 1..NCols(M) |-> Scale(c, M.cols[j])]))
\* np.dot(np.diag(w), M)
RowScale(w, M) ==
    Mat(M.nr, Tup([j \in 1..NCols(M) |->
        Tup([r \in 1..M.nr |-> RMul(w[r], M.cols[j][r])])]))
\* np.hstack((A, B)) for matrices with the same number of rows
HStack(A, B) == Mat(A.nr, A.cols \o B.cols)
\* the columns of the matrix are pairwise orthogonal
OrthCols(M) ==
    \A j, k \in 1..NCols(M) : j < k => Dot(M.cols[j], M.cols[k]) = RZero

\* ---------------------------------------------------------------- OrbitSVD
None == "None"
Raised == [raised |-> TRUE, angle |-> <<>>]
Returned(a) == [raised |-> FALSE, angle |-> a]

Min2(a, b) == IF a <= b THEN a ELSE b
Norm2(c) == Dot(c, c)
\* the squares of the singular values of a matrix with orthogonal columns,
\* column by column
Norms2(M) == Tup([j \in 1..NCols(M) |-> Norm2(M.cols[j])])
\* max(s) ** 2
SMax2(ns) == ns[CHOOSE j \in 1..Len(ns) : \A k \in 1..Len(ns) : RLe(ns[k], ns[j])]
\* position of column j's singular value in the descending list s of svd()
SIndex(ns, j) ==
    Cardinality({k \in 1..Len(ns) : RLt(ns[j], ns[k]) \/ (ns[k] = ns[j] /\ k < j)})
\* s_inv[i] != 0 for the singular value of each column: lines 31-42, with
\* lens = len(s)
SKept(ns, lens, epsilon_x, epsilon_y) ==
    LET smax2 == SMax2(ns)
        tx == RMul(smax2, RMul(epsilon_x, epsilon_x))
        ty == RMul(smax2, RMul(epsilon_y, epsilon_y))
    IN Tup([j \in 1..Len(ns) |->
           ~RLe(ns[j], IF SIndex(ns, j) < lens \div 2 THEN tx ELSE ty)])
\* Singular values that are equal but fall on the two sides of the
\* epsilon_x/epsilon_y split with different outcomes leave the result to the
\* decomposition's choice of singular vectors: such inputs are not enumerated.
SVDDeterminate(M, epsilon_x, epsilon_y) ==
    \/ epsilon_x = epsilon_y
    \/ \E ns \in {Norms2(M)} :
        \E kept \in {SKept(ns, Min2(M.nr, NCols(M)), epsilon_x, epsilon_y)} :
           \A j, k \in 1..Len(ns) : ns[j] = ns[k] => kept[j] = kept[k]

\* lines 27-47 for a weighted matrix wm and weighted orbit misallign
PseudoInverseSolve(wm, misallign, epsilon_x, epsilon_y) ==
    CHOOSE a \in
        {Tup([j \in 1..NCols(wm) |->
             IF kept[j] THEN RDiv(Dot(wm.cols[j], misallign), ns[j]) ELSE RZero]) :
         <<ns, kept>> \in
            {<<ns, SKept(ns, Min2(wm.nr, NCols(wm)), epsilon_x, epsilon_y)>> :
                ns \in {Norms2(wm)}}} : TRUE

\* OrbitSVD.apply(resp_matrix, orbit, weights): weights is None or the
\* diagonal of the weight matrix
OrbitSVD_apply(resp_matrix, orbit, weights, epsilon_x, epsilon_y) ==
    LET w == IF weights = None THEN Tup([i \in 1..Len(orbit) |-> ROne]) ELSE weights
    IN IF Len(w) # resp_matrix.nr \/ Len(w) # Len(orbit)
       THEN Raised   \* np.dot: shapes not aligned
       ELSE IF resp_matrix.nr = 0 \/ NCols(resp_matrix) = 0
       THEN Raised   \* max(s) of no singular values
       ELSE Returned(PseudoInverseSolve(
                RowScale(w, resp_matrix),
                Tup([i \in 1..Len(orbit) |-> RMul(w[i], orbit[i])]),
                epsilon_x, epsilon_y))

\* ------------------------------------------------------------------ MICADO
\* sqrt(p2) - sqrt(c2) < k for squared residuals p2, c2 and k >= 0
SqrtDiffLt(p2, c2, k) ==
    IF k = RZero THEN RLt(p2, c2)
    ELSE LET d == RSub(RSub(p2, RMul(k, k)), c2)
         IN RLt(d, RZero) \/ RLt(RMul(d, d), RMul(RI(4), RMul(RMul(k, k), c2)))

\* MICADO.swap_columns(m, col1, col2), indices counted from 0
swap_columns(m, col1, col2) ==
    LET c1 == m.cols[col1 + 1]
        c2 == m.cols[col2 + 1]
    IN Mat(m.nr, Tup([j \in 1..NCols(m) |->
           IF j = col1 + 1 THEN c2 ELSE IF j = col2 + 1 THEN c1 ELSE m.cols[j]]))

\* mask[n] = mask[index]; mask[index] = mask[n], without a temporary
SwapMask_NoTemporary(mask, n, index) ==
    Tup([j \in 1..Len(mask) |-> IF j = n + 1 THEN mask[index + 1] ELSE mask[j]])
\* mask[[n, index]] = mask[[index, n]]
SwapMask(mask, n, index) ==
    Tup([j \in 1..Len(mask) |->
        IF j = n + 1 THEN mask[index + 1]
        ELSE IF j = index + 1 THEN mask[n + 1] ELSE mask[j]])

\* np.argsort(mask): the positions (from 0) in ascending order of value
ArgSort(mask) ==
    LET rank(p) == Cardinality({q \in 1..Len(mask) :
                       mask[q] < mask[p] \/ (mask[q] = mask[p] /\ q < p)})
    IN Tup([k \in 1..Len(mask) |-> (CHOOSE p \in 1..Len(mask) : rank(p) = k - 1) - 1])

\* a[idx] for an index array idx counted from 0
Take(a, idx) == Tup([k \in 1..Len(idx) |-> a[idx[k] + 1]])

\* np.argmin(residual), counted from 0: the first minimum
ArgMin(residual) ==
    (CHOOSE i \in 1..Len(residual) :
        /\ \A k \in 1..Len(residual) : RLe(residual[i], residual[k])
        /\ \A k \in 1..(i - 1) : RLt(residual[i], residual[k])) - 1

\* the candidate column solved alone, without the columns selected before
Candidate_WithoutSelected(st, part, i, orbit, epsilon_x, epsilon_y) ==
    LET resp_vector == Mat(st.resp_matrix.nr, <<st.resp_matrix.cols[i + 1]>>)
        sol == OrbitSVD_apply(resp_vector, orbit, None, epsilon_x, epsilon_y)
        diff == VSub(MatVec(resp_vector, sol.angle), orbit)
    IN [raised |-> sol.raised,
        angles_part |-> sol.angle,
        res2 |-> IF sol.raised THEN RZero ELSE Dot(diff, diff)]
\* lines 95-100 for candidate column i (from 0): the angles of the reduced
\* system and the square of its residual
Candidate(st, part, i, orbit, epsilon_x, epsilon_y) ==
    LET resp_vector == Mat(st.resp_matrix.nr, <<st.resp_matrix.cols[i + 1]>>)
        resp_matrix_tmp == HStack(part, resp_vector)
        sol == OrbitSVD_apply(resp_matrix_tmp, orbit, None, epsilon_x, epsilon_y)
        diff == VSub(MatVec(resp_matrix_tmp, sol.angle), orbit)
    IN [raised |-> sol.raised,
        angles_part |-> sol.angle,
        res2 |-> IF sol.raised THEN RZero ELSE Dot(diff, diff)]

\* the state of MICADO.apply before the loop: lines 83-90
MicadoStart(resp_matrix) ==
    [pc |-> IF NCols(resp_matrix) = 0 THEN "return" ELSE "loop",
     n |-> 0,
     resp_matrix |-> resp_matrix,
     mask |-> Tup([j \in 1..NCols(resp_matrix) |-> j - 1]),
     orb_residual |-> <<>>,
     angle |-> Zeros(NCols(resp_matrix)),
     angles_part |-> <<>>,
     resp_matrix_part |-> Mat(resp_matrix.nr, <<>>),
     resp_vector |-> Mat(resp_matrix.nr, <<>>)]

\* the body of the loop once, for n = st.n: lines 92-112.  orb_residual holds
\* the squares of the residuals, which are in the same order.
MicadoStep(st, orbit, epsilon_x, epsilon_y, epsilon_ksi) ==
    LET ncol == NCols(st.resp_matrix)
        n == st.n
        part == HStack(st.resp_matrix_part, st.resp_vector)
        cand == Tup([k \in 1..(ncol - n) |->
                    Candidate(st, part, n + k - 1, orbit, epsilon_x, epsilon_y)])
        residual == Tup([k \in 1..(ncol - n) |-> cand[k].res2])
        index == ArgMin(residual) + n
        orb_residual == Append(st.orb_residual, residual[index - n + 1])
        angles_part == cand[ncol - n].angles_part
        L == Len(orb_residual)
        stop == L > 1 /\ SqrtDiffLt(orb_residual[L - 1], orb_residual[L], epsilon_ksi)
    IN IF \E k \in 1..(ncol - n) : cand[k].raised
       THEN [st EXCEPT !.pc = "raised"]
       ELSE [pc |-> IF stop \/ n + 1 = ncol THEN "return" ELSE "loop",
             n |-> n + 1,
             resp_matrix |-> swap_columns(st.resp_matrix, n, index),
             mask |-> SwapMask(st.mask, n, index),
             orb_residual |-> orb_residual,
             angle |-> IF stop
                       THEN Tup([j \in 1..ncol |->
                               IF j <= Len(angles_part) THEN angles_part[j]
                               ELSE st.angle[j]])
                       ELSE st.angle,
             angles_part |-> angles_part,
             resp_matrix_part |-> part,
             resp_vector |-> Mat(st.resp_matrix.nr, <<st.resp_matrix.cols[index + 1]>>)]

\* line 114
MicadoResult(st) == Take(st.angle, ArgSort(st.mask))

RECURSIVE MicadoRun(_, _, _, _, _)
MicadoRun(st, orbit, epsilon_x, epsilon_y, epsilon_ksi) ==
    IF st.pc = "loop"
    THEN CHOOSE r \in {MicadoRun(nx, orbit, epsilon_x, epsilon_y, epsilon_ksi) :
                 nx \in {MicadoStep(st, orbit, epsilon_x, epsilon_y, epsilon_ksi)}} : TRUE
    ELSE st

\* MICADO.apply(resp_matrix, orbit, weights): the weights are dropped (line 83)
MICADO_apply(resp_matrix, orbit, weights, epsilon_x, epsilon_y, epsilon_ksi) ==
    CHOOSE r \in {IF st.pc = "raised" THEN Raised ELSE Returned(MicadoResult(st)) :
        st \in {MicadoRun(MicadoStart(resp_matrix), orbit,
                          epsilon_x, epsilon_y, epsilon_ksi)}} : TRUE

\* ------------------------------------------------------ the solver objects
OrbitSVD(epsilon_x, epsilon_y) ==
    [kind |-> "OrbitSVD", epsilon_x |-> epsilon_x, epsilon_y |-> epsilon_y,
     epsilon_ksi |-> RZero]
MICADO(epsilon_x, epsilon_y, epsilon_ksi) ==
    [kind |-> "MICADO", epsilon_x |-> epsilon_x, epsilon_y |-> epsilon_y,
     epsilon_ksi |-> epsilon_ksi]

\* self.orbit_solver.apply(resp_matrix=..., orbit=..., weights=...)
SolverApply(solver, resp_matrix, orbit, weights) ==
    IF solver.kind = "MICADO"
    THEN MICADO_apply(resp_matrix, orbit, weights,
                      solver.epsilon_x, solver.epsilon_y, solver.epsilon_ksi)
    ELSE OrbitSVD_apply(resp_matrix, orbit, weights, solver.epsilon_x, solver.epsilon_y)

\* ----------------------------------------------------------- ResponseMatrix
\* A stored response matrix: the names of its columns and of its monitors and
\* the array, rows [x of every monitor, then y of every monitor].
ResponseMatrix(cor_names, bpm_names, matrix) ==
    [is_none |-> FALSE, cor_names |-> cor_names, bpm_names |-> bpm_names,
     matrix |-> matrix]
\* the attribute when no matrix was set up: lines 142-143
NoMatrix ==
    [is_none |-> TRUE, cor_names |-> <<>>, bpm_names |-> <<>>, matrix |-> Mat(0, <<>>)]
Positions(names, list) == {k \in 1..Len(names) : \E i \in 1..Len(list) : list[i] = names[k]}

RECURSIVE SeqOfSet(_)
\* the members of a set of numbers in ascending order
SeqOfSet(S) ==
    IF S = {} THEN <<>>
    ELSE LET x == CHOOSE x \in S : \A y \in S : x <= y
         IN <<x>> \o SeqOfSet(S \ {x})

\* ResponseMatrix.extract(cor_list, bpm_list): the columns of the correctors
\* and the rows of the monitors that the matrix has and the lists name
Extract(rm, cor_list, bpm_list) ==
    LET cs == SeqOfSet(Positions(rm.cor_names, cor_list))
        bs == SeqOfSet(Positions(rm.bpm_names, bpm_list))
        nb == Len(rm.bpm_names)
    IN Mat(2 * Len(bs), Tup([j \in 1..Len(cs) |->
           Tup([r \in 1..(2 * Len(bs)) |->
               IF r <= Len(bs) THEN rm.matrix.cols[cs[j]][bs[r]]
               ELSE rm.matrix.cols[cs[j]][nb + bs[r - Len(bs)]]])]))

\* ------------------------------------------------------------------- Orbit
\* scipy.linalg.block_diag(A, B)
BlockDiag(A, B) ==
    Mat(A.nr + B.nr,
        Tup([j \in 1..NCols(A) |-> A.cols[j] \o Zeros(B.nr)])
        \o Tup([j \in 1..NCols(B) |-> Zeros(A.nr) \o B.cols[j]]))

\* np.eye(n)
Eye(n) == Mat(n, Tup([j \in 1..n |-> Tup([r \in 1..n |-> IF r = j THEN ROne ELSE RZero])]))
\* np.zeros_like(M)
ZerosLike(M) == Mat(M.nr, Tup([j \in 1..NCols(M) |-> Zeros(M.nr)]))

\* Orbit.get_orbit
get_orbit(bpms) ==
    Tup([i \in 1..Len(bpms) |-> RI(bpms[i].x - bpms[i].x_ref)])
    \o Tup([i \in 1..Len(bpms) |-> RI(bpms[i].y - bpms[i].y_ref)])

\* Orbit.get_dispersion
get_dispersion(bpms) ==
    Tup([i \in 1..Len(bpms) |-> RI(bpms[i].Dx - bpms[i].Dx_des)])
    \o Tup([i \in 1..Len(bpms) |-> RI(bpms[i].Dy - bpms[i].Dy_des)])

Ids(elems) == Tup([i \in 1..Len(elems) |-> elems[i].id])

\* lines 276-278: the orbit part of the system
OrbitPart(s, alpha) == Scale(RSub(ROne, alpha), get_orbit(s.bpms))
RMPart(s, alpha) ==
    MScale(RSub(ROne, alpha),
           Extract(s.response_matrix, Ids(s.hcors \o s.vcors), Ids(s.bpms)))

\* the dispersion read only when a dispersion response matrix exists
DispPart_OnlyWithMatrix(s, alpha) ==
    IF alpha # RZero /\ ~s.disp_response_matrix.is_none
    THEN Scale(alpha, get_dispersion(s.bpms))
    ELSE Zeros(2 * Len(s.bpms))
\* lines 281-284: the dispersion part of the error vector
DispPart(s, alpha) ==
    IF alpha # RZero THEN Scale(alpha, get_dispersion(s.bpms))
    ELSE Scale(alpha, OrbitPart(s, alpha))

\* lines 286-289
DRMPart(s, alpha) ==
    IF ~s.disp_response_matrix.is_none
    THEN MScale(alpha, Extract(s.disp_response_matrix, Ids(s.hcors \o s.vcors), Ids(s.bpms)))
    ELSE ZerosLike(RMPart(s, alpha))

\* line 293: the regularization block
BMat(s, alpha, beta) == MScale(beta, Eye(DRMPart(s, alpha).nr))
\* line 294
BOrbit(s, alpha) == Zeros(DRMPart(s, alpha).nr)

\* line 296
RMatrix(s, alpha, beta) ==
    BlockDiag(BlockDiag(RMPart(s, alpha), DRMPart(s, alpha)), BMat(s, alpha, beta))

\* line 297: np.append(orbit, [disp, b_orbit]) is an array of numbers only
\* when disp and b_orbit have the same length
OrbitVectorOk(s, alpha) == Len(DispPart(s, alpha)) = Len(BOrbit(s, alpha))
OrbitVector(s, alpha) == OrbitPart(s, alpha) \o DispPart(s, alpha) \o BOrbit(s, alpha)

\* lines 303-308: the diagonal of bpm_weights_diag
BpmWeights(bpms) == Tup([i \in 1..Len(bpms) |-> RI(bpms[i].weight)])
\* the weights on the orbit rows only, every other row with weight 1
BpmWeightsDiag_OrbitRowsOnly(bpms) ==
    LET bw == BpmWeights(bpms)
        one == Tup([i \in 1..Len(bpms) |-> ROne])
    IN (bw \o bw \o one \o one) \o (one \o one)
BpmWeightsDiag(bpms) ==
    LET bw == BpmWeights(bpms)
    IN (bw \o bw \o bw \o bw) \o (bw \o bw)

\* lines 319-322: the loop over np.append(hcors, vcors) from corrector i + 1 on.
\* angle[i] or angle[ncor + i] past the end of angle raises IndexError and
\* leaves the correctors before i + 1 changed.
RECURSIVE ApplyAngles(_, _, _, _)
ApplyAngles(cors, angle, alpha, i) ==
    LET ncor == Len(cors)
    IN IF i >= ncor THEN [raised |-> FALSE, cors |-> cors]
       ELSE IF ncor + i >= Len(angle) THEN [raised |-> TRUE, cors |-> cors]
       ELSE ApplyAngles(
                [cors EXCEPT ![i + 1].angle =
                    RSub(@, RAdd(RMul(RSub(ROne, alpha), angle[i + 1]),
                                 RMul(alpha, angle[ncor + i + 1])))],
                angle, alpha, i + 1)

\* ---------------------------------------------------------------- the state
VARIABLES
    bpms,                   \* Orbit.bpms: the monitors, in lattice order
    hcors,                  \* Orbit.hcors: [id, angle] of each
    vcors,                  \* Orbit.vcors
    response_matrix,        \* Orbit.response_matrix
    disp_response_matrix,   \* Orbit.disp_response_matrix
    orbit_solver,           \* Orbit.orbit_solver
    last,                   \* the last operation on the session and what it saw
    ncalls,                 \* the number of correction calls made
    mic,                    \* MICADO.apply: its locals, and its arguments
    lat,                    \* measure_response_matrix: the lattice correctors
    meas,                   \* measure_response_matrix: its position
    lp                      \* LInfinityNorm.apply: arguments and result

orbitVars == <<bpms, hcors, vcors, response_matrix, disp_response_matrix,
               orbit_solver, last, ncalls>>
vars == <<bpms, hcors, vcors, response_matrix, disp_response_matrix,
          orbit_solver, last, ncalls, mic, lat, meas, lp>>

Session ==
    [bpms |-> bpms, hcors |-> hcors, vcors |-> vcors,
     response_matrix |-> response_matrix,
     disp_response_matrix |-> disp_response_matrix,
     orbit_solver |-> orbit_solver]

\* ------------------------------------------------------------------ inputs
Half == Rat(1, 2)
Alphas == {RZero, Half, ROne}
Betas == {RZero, ROne}
Gains == 0..MaxGain
\* (x, y, Dx, Dy) a monitor can report
Readings == {<<0, 0, 0, 0>>, <<1, 2, 2, 1>>}
Weights == {0, 1}
\* epsilon_x=0.001, epsilon_y=0.001: line 20
DefaultEpsilon == Rat(1, 1000)
Solvers ==
    {OrbitSVD(DefaultEpsilon, DefaultEpsilon), OrbitSVD(Half, RZero),
     OrbitSVD(Half, Half)}
\* what can go wrong outside this file during a call: the decomposition not
\* converging, the lattice failing to update its transfer maps
Faults == {"none", "solver", "update_transfer_maps"}

RECURSIVE IntSum(_, _)
IntSum(f, n) == IF n = 0 THEN 0 ELSE f[n] + IntSum(f, n - 1)
\* the columns of nr gains that add up to MaxGain at most
Columns(nr) == {c \in [1..nr -> Gains] : IntSum(c, nr) <= MaxGain}
\* the (nr x nc) arrays of such columns that are pairwise orthogonal
Arrays(nr, nc) ==
    {M \in {Mat(nr, Tup([j \in 1..nc |-> Tup([r \in 1..nr |-> RI(f[j][r])])])) :
                f \in [1..nc -> Columns(nr)]} : OrthCols(M)}

\* Monitor after create_bpms: lines 176-188
NewMonitor(i) ==
    [id |-> i, x |-> 0, y |-> 0, x_ref |-> 0, y_ref |-> 0,
     Dx |-> 0, Dy |-> 0, Dx_des |-> 0, Dy_des |-> 0, weight |-> 1]
NewCorrector(plane, i) == [id |-> <<plane, i>>, angle |-> RZero]

NoCall == [op |-> "none"]

\* ------------------------------------------------------- Orbit.correction
\* The systems whose decomposition the model computes exactly.  The stored
\* arrays have pairwise orthogonal columns without negative entries, so the
\* columns of the weighted block-diagonal system are pairwise orthogonal too.
ExactSystem(s, alpha, beta) ==
    \/ s.response_matrix.is_none
    \/ s.orbit_solver.epsilon_x = s.orbit_solver.epsilon_y
    \/ /\ s.orbit_solver.kind # "MICADO"
       /\ LET rmatrix == RMatrix(s, alpha, beta)
              w == BpmWeightsDiag(s.bpms)
          IN Len(w) = rmatrix.nr =>
                SVDDeterminate(RowScale(w, rmatrix),
                               s.orbit_solver.epsilon_x, s.orbit_solver.epsilon_y)

NoAngle == [raised |-> TRUE, angle |-> <<>>]

\* lines 274-317: the system is assembled and solved.  fault says what went
\* wrong outside this file: the decomposition did not converge
\* (numpy.linalg.LinAlgError), or the lattice failed to update its maps.
CorrectionSolve(s, alpha, beta, fault) ==
    IF s.response_matrix.is_none THEN NoAngle          \* None has no extract
    ELSE IF ~OrbitVectorOk(s, alpha) THEN NoAngle      \* ragged np.append
    ELSE IF fault = "solver" THEN NoAngle
    ELSE SolverApply(s.orbit_solver, RMatrix(s, alpha, beta),
                     OrbitVector(s, alpha), BpmWeightsDiag(s.bpms))

\* lines 319-330 after the solver returned sol: the loop, then
\* update_transfer_maps.  The result is how the call ended, the vector the
\* solver returned (empty when the call raised before it had one) and the
\* correctors as the call left them.
CorrectionFinish(s, alpha, sol, fault) ==
    LET cors == s.hcors \o s.vcors
    IN IF sol.raised THEN [status |-> "raised", angle |-> <<>>, cors |-> cors]
       ELSE CHOOSE q \in
              {[status |-> IF ap.raised \/ fault = "update_transfer_maps"
                           THEN "raised" ELSE "returned",
                angle |-> sol.angle,
                cors |-> ap.cors] :
               ap \in {ApplyAngles(cors, sol.angle, alpha, 0)}} : TRUE

\* Orbit.correction(alpha, beta) with p_init=None: lines 274-330
CorrectionOutcome(s, alpha, beta, fault) ==
    CHOOSE r \in {CorrectionFinish(s, alpha, sol, fault) :
                    sol \in {CorrectionSolve(s, alpha, beta, fault)}} : TRUE

Idle == "idle"

Correction(alpha, beta) ==
    /\ ncalls < MaxCalls
    /\ ExactSystem(Session, alpha, beta)
    /\ \E sol \in {CorrectionSolve(Session, alpha, beta, "none")} :
       \E fault \in Faults :
       \E out \in {IF fault = "solver"
                   THEN CorrectionOutcome(Session, alpha, beta, fault)
                   ELSE CorrectionFinish(Session, alpha, sol, fault)} :
        /\ hcors' = SubSeq(out.cors, 1, Len(hcors))
        /\ vcors' = SubSeq(out.cors, Len(hcors) + 1, Len(out.cors))
        /\ last' = [op |-> "correction", status |-> out.status, alpha |-> alpha,
                    beta |-> beta, fault |-> fault, angle |-> out.angle,
                    before |-> Session]
    /\ ncalls' = ncalls + 1
    /\ UNCHANGED <<bpms, response_matrix, disp_response_matrix, orbit_solver,
                   mic, lat, meas, lp>>

\* the tracking code writes a monitor's readings
SetReading(i, r) ==
    /\ ncalls < MaxCalls
    /\ bpms' = [bpms EXCEPT ![i].x = r[1], ![i].y = r[2], ![i].Dx = r[3], ![i].Dy = r[4]]
    /\ bpms' # bpms
    /\ last' = NoCall
    /\ UNCHANGED <<hcors, vcors, response_matrix, disp_response_matrix,
                   orbit_solver, ncalls, mic, lat, meas, lp>>

\* the user sets a monitor's weight
SetWeight(i, w) ==
    /\ ncalls < MaxCalls
    /\ bpms[i].weight # w
    /\ bpms' = [bpms EXCEPT ![i].weight = w]
    /\ last' = NoCall
    /\ UNCHANGED <<hcors, vcors, response_matrix, disp_response_matrix,
                   orbit_solver, ncalls, mic, lat, meas, lp>>

\* the user replaces the solver
SetSolver(solver) ==
    /\ ncalls < MaxCalls
    /\ orbit_solver # solver
    /\ orbit_solver' = solver
    /\ last' = NoCall
    /\ UNCHANGED <<bpms, hcors, vcors, response_matrix, disp_response_matrix,
                   ncalls, mic, lat, meas, lp>>

\* The response matrices a provider may have stored for a session of m
\* monitors and ncor correctors: for the first mb monitors and c correctors.
StoredMatrices(bpm_list, cor_list) ==
    {ResponseMatrix(SubSeq(cor_list, 1, c), SubSeq(bpm_list, 1, mb), M) :
        <<c, mb, M>> \in
            UNION {UNION {{<<c, mb, M>> : M \in Arrays(2 * mb, c)} :
                               c \in {c \in 1..Len(cor_list) : 2 * mb * c <= MaxEntries}} :
                   mb \in {Len(bpm_list)}}}

\* a dispersion response matrix for the same monitors and correctors
DispersionOf(rm) ==
    ResponseMatrix(rm.cor_names, rm.bpm_names,
        Mat(rm.matrix.nr, Tup([j \in 1..NCols(rm.matrix) |->
            Tup([r \in 1..rm.matrix.nr |-> rm.matrix.cols[j][rm.matrix.nr + 1 - r]])])))

\* Orbit.__init__: lines 133-155
Init ==
    /\ \E m \in 1..MaxBpm, nh \in 1..MaxHcor, nv \in 0..MaxVcor :
        /\ bpms = Tup([i \in 1..m |-> NewMonitor(i)])
        /\ hcors = Tup([i \in 1..nh |-> NewCorrector("h", i)])
        /\ vcors = Tup([i \in 1..nv |-> NewCorrector("v", i)])
    /\ response_matrix \in {NoMatrix} \cup StoredMatrices(Ids(bpms), Ids(hcors \o vcors))
    /\ disp_response_matrix \in
         IF response_matrix.is_none THEN {NoMatrix}
         ELSE {NoMatrix, DispersionOf(response_matrix)}
    /\ orbit_solver = OrbitSVD(DefaultEpsilon, DefaultEpsilon)
    /\ last = NoCall
    /\ ncalls = 0
    /\ mic = Idle
    /\ lat = Idle
    /\ meas = Idle
    /\ lp = Idle

Next ==
    \/ \E alpha \in Alphas, beta \in Betas : Correction(alpha, beta)
    \/ \E i \in 1..Len(bpms), r \in Readings : SetReading(i, r)
    \/ \E i \in 1..Len(bpms), w \in Weights : SetWeight(i, w)
    \/ \E solver \in Solvers : SetSolver(solver)

Spec == Init /\ [][Next]_vars

\* ----------------------------------------------- claims: Orbit.correction
Corrected == last.op = "correction"
CallReturned == Corrected /\ last.status = "returned"
CorsNow == hcors \o vcors
CorsBefore == last.before.hcors \o last.before.vcors
NCor == Len(CorsNow)
\* -Delta(i) is the change line 322 makes to corrector i (from 1)
Delta(i) ==
    RAdd(RMul(RSub(ROne, last.alpha), last.angle[i]),
         RMul(last.alpha, last.angle[NCor + i]))
Untouched == \A i \in 1..NCor : CorsNow[i].angle = CorsBefore[i].angle
FullyApplied ==
    /\ Len(last.angle) >= 2 * NCor
    /\ \A i \in 1..NCor : CorsNow[i].angle = RSub(CorsBefore[i].angle, Delta(i))

(* C1: a correction call that raises leaves either every corrector with its
   full computed change or every corrector unchanged; when the solver
   raises, every corrector is unchanged. *)
C1_AllOrNothing ==
    (Corrected /\ last.status = "raised") =>
        /\ Untouched \/ FullyApplied
        /\ last.fault = "solver" => Untouched

\* the corrector whose column column k of the extracted matrix is
ExtractedName(rm, cor_list, k) ==
    rm.cor_names[SeqOfSet(Positions(rm.cor_names, cor_list))[k]]
\* what unknown column k (from 1) of the combined system of line 296 is
ColumnOwner(s, alpha, k) ==
    LET cor_list == Ids(s.hcors \o s.vcors)
        cr == NCols(RMPart(s, alpha))
        cd == NCols(DRMPart(s, alpha))
    IN IF k <= cr THEN <<"orbit", ExtractedName(s.response_matrix, cor_list, k)>>
       ELSE IF k <= cr + cd
       THEN <<"dispersion",
              IF s.disp_response_matrix.is_none
              THEN ExtractedName(s.response_matrix, cor_list, k - cr)
              ELSE ExtractedName(s.disp_response_matrix, cor_list, k - cr)>>
       ELSE <<"regularization", k - cr - cd>>

(* C3: after a successful correction the i-th corrector of [hcors, vcors]
   has changed by -[(1-alpha)*a[i] + alpha*a[ncor+i]], and a[i] and
   a[ncor+i] are the unknowns of that corrector's own orbit and dispersion
   columns. *)
C3_AppliedToOwnColumn ==
    CallReturned =>
        \A i \in 1..NCor :
            /\ CorsNow[i].id = CorsBefore[i].id
            /\ CorsNow[i].angle = RSub(CorsBefore[i].angle, Delta(i))
            /\ ColumnOwner(last.before, last.alpha, i) = <<"orbit", CorsNow[i].id>>
            /\ ColumnOwner(last.before, last.alpha, NCor + i)
                   = <<"dispersion", CorsNow[i].id>>

\* the session with monitor j reporting r
WithReading(s, j, r) ==
    [s EXCEPT !.bpms[j].x = r[1], !.bpms[j].y = r[2],
              !.bpms[j].Dx = r[3], !.bpms[j].Dy = r[4]]

(* C4: with the OrbitSVD solver, the correctors a correction leaves are the
   same whatever x, y, Dx, Dy a monitor of weight 0 reports. *)
C4_ZeroWeightNoInfluence ==
    (Corrected /\ last.before.orbit_solver.kind = "OrbitSVD") =>
        \A j \in 1..Len(bpms) :
            last.before.bpms[j].weight = 0 =>
                \A r \in Readings :
                    CorrectionOutcome(WithReading(last.before, j, r),
                                      last.alpha, last.beta, last.fault).cors = CorsNow

C4_Witness ==
    /\ CallReturned
    /\ ~Untouched
    /\ \E j, k \in 1..Len(bpms) :
        /\ last.before.bpms[j].weight = 0
        /\ last.before.bpms[j].x # 0
        /\ last.before.bpms[k].weight = 1

\* the solver run on the orbit system alone
DirectSolve(s) ==
    OrbitSVD_apply(RMPart(s, RZero), OrbitPart(s, RZero),
                   BpmWeights(s.bpms) \o BpmWeights(s.bpms),
                   s.orbit_solver.epsilon_x, s.orbit_solver.epsilon_y)
\* corrector i changed as the direct solution says
ChangedAsDirect(s, i) ==
    CorsNow[i].angle =
        RSub(CorsBefore[i].angle,
             IF i <= Len(DirectSolve(s).angle) THEN DirectSolve(s).angle[i] ELSE RZero)
IsZeroMat(M) == \A j \in 1..NCols(M) : IsZeroVec(M.cols[j])

(* C5, as claimed: with alpha = 0 and beta = 0 the applied changes are those
   of the solver run directly on the orbit matrix, the orbit error and the
   monitor weights, for any epsilon_x and epsilon_y. *)
C5_ReducesForAnyEpsilon ==
    (/\ CallReturned /\ last.alpha = RZero /\ last.beta = RZero
     /\ SVDDeterminate(RowScale(BpmWeights(last.before.bpms)
                                    \o BpmWeights(last.before.bpms),
                                RMPart(last.before, RZero)),
                       last.before.orbit_solver.epsilon_x,
                       last.before.orbit_solver.epsilon_y)) =>
        \A i \in 1..NCor : ChangedAsDirect(last.before, i)

(* C5 with one threshold: with alpha = 0 and beta = 0 the dispersion and the
   regularization blocks are zero blocks, still present in the system, and
   with epsilon_x = epsilon_y the applied changes are those of the solver
   run directly on the orbit system. *)
C5_ReducesForEqualEpsilon ==
    (CallReturned /\ last.alpha = RZero /\ last.beta = RZero) =>
        /\ IsZeroMat(DRMPart(last.before, RZero))
        /\ IsZeroMat(BMat(last.before, RZero, RZero))
        /\ IsZeroVec(DispPart(last.before, RZero))
        /\ RMatrix(last.before, RZero, RZero).nr = 3 * RMPart(last.before, RZero).nr
        /\ last.before.orbit_solver.epsilon_x = last.before.orbit_solver.epsilon_y
             => \A i \in 1..NCor : ChangedAsDirect(last.before, i)

C5_Witness ==
    /\ CallReturned /\ last.alpha = RZero /\ last.beta = RZero
    /\ last.before.orbit_solver = OrbitSVD(Half, Half)
    /\ ~Untouched

(* C6: in the combined system the regularization block has one row per
   corrector and acts on the corrector unknowns, and the weight matrix has
   one diagonal entry per row of the system. *)
C6_RegularizationPerActuator ==
    (Corrected /\ ~last.before.response_matrix.is_none) =>
        /\ BMat(last.before, last.alpha, last.beta).nr = NCor
        /\ NCols(RMatrix(last.before, last.alpha, last.beta)) = 2 * NCor
        /\ Len(BpmWeightsDiag(last.before.bpms))
               = RMatrix(last.before, last.alpha, last.beta).nr

\* the matrix extract() returned does not have one column per corrector and
\* two rows per monitor
DimensionMismatch(s) ==
    LET RM == RMPart(s, RZero)
    IN NCols(RM) # Len(s.hcors) + Len(s.vcors) \/ RM.nr # 2 * Len(s.bpms)

(* C11: when the extracted response matrix has another number of columns
   than there are correctors, or of rows than twice the monitors, the
   correction call raises and no corrector angle has changed. *)
C11_MismatchRaisesBeforeUpdate ==
    (Corrected /\ ~last.before.response_matrix.is_none
               /\ DimensionMismatch(last.before)) =>
        (last.status = "raised" /\ Untouched)

\* alpha * (Dx - Dx_des, Dy - Dy_des) of the monitors of s
ScaledDispersion(s, alpha) ==
    Tup([i \in 1..Len(s.bpms) |->
            RMul(alpha, RI(s.bpms[i].Dx - s.bpms[i].Dx_des))])
    \o Tup([i \in 1..Len(s.bpms) |->
            RMul(alpha, RI(s.bpms[i].Dy - s.bpms[i].Dy_des))])

(* C12, as claimed: the dispersion part of the error vector is
   alpha * (Dx - Dx_des, Dy - Dy_des) only when alpha != 0 and a dispersion
   response matrix exists, and the zero vector of length 2*len(bpms) in every
   other case. *)
C12_DispersionOnlyWithMatrix ==
    (Corrected /\ ~last.before.response_matrix.is_none) =>
        DispPart(last.before, last.alpha) =
            IF last.alpha # RZero /\ ~last.before.disp_response_matrix.is_none
            THEN ScaledDispersion(last.before, last.alpha)
            ELSE Zeros(2 * Len(last.before.bpms))

(* C12, amended: in a call that gets past the extraction of line 278, the
   dispersion part of the error vector is alpha * (Dx - Dx_des, Dy - Dy_des)
   whenever alpha != 0, with or without a dispersion response matrix, and
   the zero vector of length 2*len(bpms) when alpha == 0. *)
C12_DispersionByAlphaAlone ==
    (Corrected /\ ~last.before.response_matrix.is_none) =>
        DispPart(last.before, last.alpha) =
            IF last.alpha # RZero
            THEN ScaledDispersion(last.before, last.alpha)
            ELSE Zeros(2 * Len(last.before.bpms))

\* a call with alpha != 0, no dispersion response matrix and a monitor that
\* reports dispersion
C12_Witness ==
    /\ Corrected /\ ~last.before.response_matrix.is_none
    /\ last.alpha # RZero
    /\ last.before.disp_response_matrix.is_none
    /\ ~IsZeroVec(DispPart(last.before, last.alpha))

\* ---------------------------------------------------- MICADO.apply, stepwise
MaxRows == 3
MaxCols == 3
Ksis == {RZero, Half}
Epsilons == {RZero, Half}
Orbits(nr) == {Tup([r \in 1..nr |-> RI(f[r])]) : f \in [1..nr -> Gains]}

\* the session is not part of a solver call
NoSession ==
    /\ bpms = <<>> /\ hcors = <<>> /\ vcors = <<>>
    /\ response_matrix = NoMatrix /\ disp_response_matrix = NoMatrix
    /\ orbit_solver = OrbitSVD(DefaultEpsilon, DefaultEpsilon)
    /\ last = NoCall /\ ncalls = 0

\* whether the decomposition of candidate i's system (lines 96-98) keeps
\* every singular value
CandidateUntruncated(st, part, i, epsilon_x, epsilon_y) ==
    LET resp_vector == Mat(st.resp_matrix.nr, <<st.resp_matrix.cols[i + 1]>>)
        resp_matrix_tmp == HStack(part, resp_vector)
        ns == Norms2(resp_matrix_tmp)
        kept == SKept(ns, Min2(resp_matrix_tmp.nr, NCols(resp_matrix_tmp)),
                      epsilon_x, epsilon_y)
    IN \A j \in 1..Len(kept) : kept[j]
\* whether some candidate of the pass n = st.n is solved without truncation
SomeUntruncated(st, epsilon_x, epsilon_y) ==
    LET part == HStack(st.resp_matrix_part, st.resp_vector)
    IN \E i \in st.n..(NCols(st.resp_matrix) - 1) :
          CandidateUntruncated(st, part, i, epsilon_x, epsilon_y)

\* a MICADO(epsilon, epsilon, epsilon_ksi).apply(resp_matrix, orbit) call
InitMicado ==
    /\ NoSession
    /\ \E nr \in 1..MaxRows, nc \in 1..MaxCols :
       \E M \in Arrays(nr, nc), orbit \in Orbits(nr),
          epsilon \in Epsilons, epsilon_ksi \in Ksis :
            mic = [pc |-> "apply", st |-> MicadoStart(M), resp_matrix |-> M,
                   orbit |-> orbit, epsilon_x |-> epsilon, epsilon_y |-> epsilon,
                   epsilon_ksi |-> epsilon_ksi, untruncated |-> <<>>,
                   result |-> <<>>]
    /\ lat = Idle /\ meas = Idle /\ lp = Idle

\* one pass of the loop of lines 91-112
MicadoIterate ==
    /\ mic.pc = "apply"
    /\ mic.st.pc = "loop"
    /\ mic' = [mic EXCEPT
                 !.st = MicadoStep(mic.st, mic.orbit, mic.epsilon_x, mic.epsilon_y,
                                   mic.epsilon_ksi),
                 !.untruncated =
                     Append(@, SomeUntruncated(mic.st, mic.epsilon_x, mic.epsilon_y))]
    /\ UNCHANGED <<orbitVars, lat, meas, lp>>

\* line 114
MicadoReturn ==
    /\ mic.pc = "apply"
    /\ mic.st.pc = "return"
    /\ mic' = [mic EXCEPT !.pc = "done", !.result = MicadoResult(mic.st)]
    /\ UNCHANGED <<orbitVars, lat, meas, lp>>

NextMicado == MicadoIterate \/ MicadoReturn

SpecMicado == InitMicado /\ [][NextMicado]_vars

\* the solution of the system of the columns selected so far, each
\* coefficient at its column's original index, 0 elsewhere
SelectedSolution ==
    LET st == mic.st
        k == st.n
        sel == Mat(st.resp_matrix.nr, SubSeq(st.resp_matrix.cols, 1, k))
        sol == OrbitSVD_apply(sel, mic.orbit, None, mic.epsilon_x, mic.epsilon_y)
    IN Take(sol.angle \o Zeros(NCols(st.resp_matrix) - k), ArgSort(st.mask))

(* C8: MICADO.apply returns, at each selected column's original index, that
   column's coefficient in the solution of the system of the selected
   columns, and 0 for every other column, whether the loop stopped on the
   improvement threshold or after the last column. *)
C8_ResultIsReducedSolution ==
    mic.pc = "done" => mic.result = SelectedSolution

(* C9: after any number of passes the mask is a permutation of 0..n-1,
   column j of the working matrix is column mask[j] of the original one, and
   indexing by argsort(mask) undoes the swaps. *)
C9_MaskTracksColumns ==
    LET st == mic.st
        n == NCols(mic.resp_matrix)
    IN /\ Len(st.mask) = n
       /\ {st.mask[j] : j \in 1..n} = 0..(n - 1)
       /\ \A j \in 1..n : st.resp_matrix.cols[j] = mic.resp_matrix.cols[st.mask[j] + 1]
       /\ \A k \in 1..n : st.mask[ArgSort(st.mask)[k] + 1] = k - 1
       /\ Take(st.resp_matrix.cols, ArgSort(st.mask)) = mic.resp_matrix.cols

\* the first pass found its winner in place (index == n), the second swapped
C9_Witness ==
    /\ mic.st.n >= 2
    /\ mic.st.mask[1] = 0
    /\ mic.st.mask[2] # 1
    /\ mic.resp_matrix.cols[1] # mic.resp_matrix.cols[mic.st.mask[2] + 1]

(* C10, as claimed: the recorded residuals never increase, for every
   input. *)
C10_NonIncreasing ==
    \A k \in 2..Len(mic.st.orb_residual) :
        RLe(mic.st.orb_residual[k], mic.st.orb_residual[k - 1])

(* C10, amended: orb_residual[n] <= orb_residual[n-1] for every pass n >= 1
   in which the decomposition of at least one candidate system keeps every
   singular value. *)
C10_NonIncreasingUntruncated ==
    \A k \in 2..Len(mic.st.orb_residual) :
        mic.untruncated[k] =>
            RLe(mic.st.orb_residual[k], mic.st.orb_residual[k - 1])

\* a pass with a threshold that can truncate, a candidate it does not
\* truncate, and a residual that went down
C10_Witness ==
    /\ mic.epsilon_x = Half
    /\ Len(mic.st.orb_residual) >= 2
    /\ mic.untruncated[2]
    /\ RLt(mic.st.orb_residual[2], mic.st.orb_residual[1])

\* ------------------------------------------------ measure_response_matrix
\* lat is lattice.sequence, here its correctors [id, angle, dI]: orbit.hcors
\* are the first meas.nh of them and orbit.vcors the others.
Angles == {0, 1}
Steps == {1, 2}

Angles_of(lattice) == Tup([i \in 1..Len(lattice) |-> lattice[i].angle])

\* change_corrector(corrector, lattice): lines 340-347
change_corrector(corrector, lattice) ==
    Tup([i \in 1..Len(lattice) |->
        IF lattice[i].id = corrector.id
        THEN [lattice[i] EXCEPT !.angle = @ + corrector.dI]
        ELSE lattice[i]])

\* restore_corrector(corrector, lattice): lines 349-354
restore_corrector(corrector, lattice) ==
    Tup([i \in 1..Len(lattice) |->
        IF lattice[i].id = corrector.id
        THEN [lattice[i] EXCEPT !.angle = @ - corrector.dI]
        ELSE lattice[i]])

InitMeasure ==
    /\ NoSession
    /\ mic = Idle /\ lp = Idle
    /\ \E nh \in 1..MaxHcor, nv \in 0..MaxVcor :
       \E a \in [1..(nh + nv) -> Angles], d \in [1..(nh + nv) -> Steps] :
        /\ lat = Tup([i \in 1..(nh + nv) |->
                    [id |-> IF i <= nh THEN <<"h", i>> ELSE <<"v", i - nh>>,
                     angle |-> a[i], dI |-> d[i]]])
        /\ meas = [pc |-> "start", k |-> 0, nh |-> nh, entry |-> Tup(a)]

\* what follows column k - 1: the next column, or the return of line 393
AfterColumn(k) == IF k < Len(lat) THEN "columns" ELSE "returned"

\* line 369: the first read_virtual_orbit, which returns or raises
MeasureFirstRead(ok) ==
    /\ meas.pc = "start"
    /\ meas' = [meas EXCEPT !.pc = IF ok THEN AfterColumn(0) ELSE "raised"]
    /\ UNCHANGED <<orbitVars, mic, lat, lp>>

\* lines 371-380: one pass of the loop over orbit.hcors; read_virtual_orbit
\* returns (ok) or raises
MeasureHcor(ok) ==
    /\ meas.pc = "columns"
    /\ meas.k < meas.nh
    /\ \E changed \in {change_corrector(lat[meas.k + 1], lat)} :
        IF ok
        THEN /\ lat' = restore_corrector(lat[meas.k + 1], changed)
             /\ meas' = [meas EXCEPT !.k = @ + 1, !.pc = AfterColumn(meas.k + 1)]
        ELSE /\ lat' = changed
             /\ meas' = [meas EXCEPT !.pc = "raised"]
    /\ UNCHANGED <<orbitVars, mic, lp>>

\* lines 382-392: one pass of the loop over orbit.vcors
MeasureVcor(ok) ==
    /\ meas.pc = "columns"
    /\ meas.k >= meas.nh
    /\ \E changed \in {change_corrector(lat[meas.k + 1], lat)} :
        IF ok
        THEN /\ lat' = restore_corrector(lat[meas.k + 1], changed)
             /\ meas' = [meas EXCEPT !.k = @ + 1, !.pc = AfterColumn(meas.k + 1)]
        ELSE /\ lat' = changed
             /\ meas' = [meas EXCEPT !.pc = "raised"]
    /\ UNCHANGED <<orbitVars, mic, lp>>

NextMeasure ==
    \/ \E ok \in BOOLEAN : MeasureFirstRead(ok)
    \/ \E ok \in BOOLEAN : MeasureHcor(ok)
    \/ \E ok \in BOOLEAN : MeasureVcor(ok)

SpecMeasure == InitMeasure /\ [][NextMeasure]_vars

(* C2: when measure_response_matrix is left, by its return or by
   read_virtual_orbit raising during any column, every corrector angle
   equals its value at entry. *)
C2_RestoredOnEveryExit ==
    meas.pc \in {"returned", "raised"} => Angles_of(lat) = meas.entry

\* -------------------------------------------------- LInfinityNorm.apply
\* the problem of lines 122-127 for a matrix of one column: minimize t over
\* (a, t) with M*a - t <= e and -M*a - t <= -e, and with linprog's default
\* bounds (0, None) on every variable, a and t.
MaxOrbit == 4
LGains == (0 - MaxGain)..MaxGain
LOrbits == (0 - MaxOrbit)..MaxOrbit

\* max_i |(M*a - e)_i| for the one-column matrix M and the number a
MaxResidual(M, e, a) ==
    LET r == VSub(MatVec(M, <<a>>), e)
        absr == Tup([i \in 1..Len(r) |-> RAbs(r[i])])
    IN absr[CHOOSE i \in 1..Len(r) : \A k \in 1..Len(r) : RLe(absr[k], absr[i])]

\* the values of a at which two of the bounding lines +-(M_i*a - e_i) cross
Crossings(M, e) ==
    LET col == M.cols[1]
        I == 1..M.nr
    IN {RDiv(RSub(e[i], e[j]), RSub(col[i], col[j])) :
            <<i, j>> \in {q \in I \X I : col[q[1]] # col[q[2]]}}
       \cup {RDiv(RAdd(e[i], e[j]), RAdd(col[i], col[j])) :
            <<i, j>> \in {q \in I \X I : RAdd(col[q[1]], col[q[2]]) # RZero}}

\* the vertices of the feasible set that linprog searches: a >= 0
Vertices(M, e) == {a \in Crossings(M, e) \cup {RZero} : RLe(RZero, a)}

\* res["x"][:-1] of an optimal vertex: lines 127-129
LInfinityNorm_apply(M, e) ==
    {<<a>> : a \in {a \in Vertices(M, e) :
        \A b \in Vertices(M, e) : RLe(MaxResidual(M, e, a), MaxResidual(M, e, b))}}

InitLInf ==
    /\ NoSession
    /\ mic = Idle /\ lat = Idle /\ meas = Idle
    /\ \E nr \in 1..MaxBpm :
       \E g \in [1..nr -> LGains], o \in [1..nr -> LOrbits] :
        lp = [pc |-> "apply",
              resp_matrix |-> Mat(nr, <<Tup([r \in 1..nr |-> RI(g[r])])>>),
              orbit |-> Tup([r \in 1..nr |-> RI(o[r])]),
              x |-> <<>>]

\* LInfinityNorm.apply(resp_matrix, orbit): lines 121-129
LInfApply ==
    /\ lp.pc = "apply"
    /\ \E x \in LInfinityNorm_apply(lp.resp_matrix, lp.orbit) :
        lp' = [lp EXCEPT !.pc = "done", !.x = x]
    /\ UNCHANGED <<orbitVars, mic, lat, meas>>

NextLInf == LInfApply

SpecLInf == InitLInf /\ [][NextLInf]_vars

(* C7: LInfinityNorm.apply(M, e) returns an a whose maximum absolute
   residual no real a of either sign undercuts, the answer of OrbitSVD.apply
   on the same (M, e) included; for M = [[2]] and e = [-4] it returns
   [-2]. *)
C7_MinimaxOverAllReals ==
    lp.pc = "done" =>
        /\ \A b \in Crossings(lp.resp_matrix, lp.orbit) \cup {RZero} :
              RLe(MaxResidual(lp.resp_matrix, lp.orbit, lp.x[1]),
                  MaxResidual(lp.resp_matrix, lp.orbit, b))
        /\ LET svd == OrbitSVD_apply(lp.resp_matrix, lp.orbit, None,
                                     DefaultEpsilon, DefaultEpsilon)
           IN RLe(MaxResidual(lp.resp_matrix, lp.orbit, lp.x[1]),
                  MaxResidual(lp.resp_matrix, lp.orbit, svd.angle[1]))
        /\ (lp.resp_matrix.cols = << <<RI(2)>> >> /\ lp.orbit = <<RI(0 - 4)>>)
              => lp.x = <<RI(0 - 2)>>

\* ------------------------------ Orbit.correction with any of the solvers
MaxFrameBpm == 1
MaxFrameCalls == 2

LInfinityNorm ==
    [kind |-> "LInfinityNorm", epsilon_x |-> DefaultEpsilon,
     epsilon_y |-> DefaultEpsilon, epsilon_ksi |-> RZero]
FrameSolvers ==
    {OrbitSVD(DefaultEpsilon, DefaultEpsilon),
     MICADO(DefaultEpsilon, DefaultEpsilon, Half),
     LInfinityNorm}

\* the arguments handed to the solver, the stored matrix itself when
\* alpha = 0 and beta = 0 and it has exactly the session's columns and rows
SolverArguments_StoredWhenPlain(s, alpha, beta) ==
    IF /\ alpha = RZero /\ beta = RZero
       /\ s.response_matrix.cor_names = Ids(s.hcors \o s.vcors)
       /\ s.response_matrix.bpm_names = Ids(s.bpms)
    THEN [resp_matrix |-> s.response_matrix.matrix,
          orbit |-> get_orbit(s.bpms),
          weights |-> BpmWeights(s.bpms) \o BpmWeights(s.bpms),
          shares_stored |-> TRUE]
    ELSE [resp_matrix |-> RMatrix(s, alpha, beta),
          orbit |-> OrbitVector(s, alpha),
          weights |-> BpmWeightsDiag(s.bpms),
          shares_stored |-> FALSE]
\* line 317: the arguments handed to the solver.  RM and DRM are products
\* (lines 278, 287), which are new arrays, and block_diag (line 296)
\* allocates its result: rmatrix shares no memory with a stored matrix.
SolverArguments(s, alpha, beta) ==
    [resp_matrix |-> RMatrix(s, alpha, beta),
     orbit |-> OrbitVector(s, alpha),
     weights |-> BpmWeightsDiag(s.bpms),
     shares_stored |-> FALSE]

\* what the array passed as resp_matrix holds when apply returns: MICADO
\* swaps its columns in place (line 107), the other solvers write nothing
ArgumentAfter(solver, args) ==
    IF solver.kind = "MICADO"
    THEN MicadoRun(MicadoStart(args.resp_matrix), args.orbit, solver.epsilon_x,
                   solver.epsilon_y, solver.epsilon_ksi).resp_matrix
    ELSE args.resp_matrix

\* the minimax optima of one column on the rows it reaches
ColumnOptima(col, e) ==
    LET rows == SeqOfSet({i \in 1..Len(col) : col[i] # RZero})
        sub == Tup([k \in 1..Len(rows) |-> col[rows[k]]])
        esub == Tup([k \in 1..Len(rows) |-> e[rows[k]]])
    IN IF rows = <<>> THEN {RZero}
       ELSE {x[1] : x \in LInfinityNorm_apply(Mat(Len(rows), <<sub>>), esub)}
RECURSIVE LInfPoints(_, _, _)
\* optimal points of the problem of lines 122-127 for a matrix whose columns
\* reach disjoint rows: every column from j on at an optimum of its own
LInfPoints(M, e, j) ==
    IF j > NCols(M) THEN {<<>>}
    ELSE {<<a>> \o rest : a \in ColumnOptima(M.cols[j], e),
                          rest \in LInfPoints(M, e, j + 1)}

\* self.orbit_solver.apply(...) of line 317, every way it can end.
\* LInfinityNorm stacks the 1-D error vector into a (2, len) array (line
\* 126): a linprog that ravels b_ub solves the problem, one that validates
\* the shape of b_ub raises ValueError.
SolveOutcomes(solver, args) ==
    IF solver.kind = "LInfinityNorm"
    THEN {Raised} \cup {Returned(a) : a \in LInfPoints(args.resp_matrix, args.orbit, 1)}
    ELSE {SolverApply(solver, args.resp_matrix, args.orbit, args.weights)}

\* a session whose response matrices were built for its own correctors and
\* monitors: lines 145-163
InitFrame ==
    /\ \E m \in 1..MaxFrameBpm, nh \in 1..MaxHcor, nv \in 0..MaxVcor :
        /\ 2 * m * (nh + nv) <= MaxEntries
        /\ bpms = Tup([i \in 1..m |-> NewMonitor(i)])
        /\ hcors = Tup([i \in 1..nh |-> NewCorrector("h", i)])
        /\ vcors = Tup([i \in 1..nv |-> NewCorrector("v", i)])
    /\ response_matrix \in
         {ResponseMatrix(Ids(hcors \o vcors), Ids(bpms), M) :
             M \in Arrays(2 * Len(bpms), Len(hcors) + Len(vcors))}
    /\ disp_response_matrix \in {NoMatrix, DispersionOf(response_matrix)}
    /\ orbit_solver = OrbitSVD(DefaultEpsilon, DefaultEpsilon)
    /\ last = NoCall
    /\ ncalls = 0
    /\ mic = Idle /\ lat = Idle /\ meas = Idle /\ lp = Idle

\* Orbit.correction(alpha, beta), lines 274-330, with what the call leaves in
\* every attribute of the session
CorrectionCall(alpha, beta) ==
    /\ ncalls < MaxFrameCalls
    /\ ~response_matrix.is_none
    /\ \E args \in {SolverArguments(Session, alpha, beta)} :
       \E outcomes \in {SolveOutcomes(orbit_solver, args)} :
       \E written \in {ArgumentAfter(orbit_solver, args)} :
       \E fault \in Faults :
       \E sol \in IF fault = "solver" THEN {Raised} ELSE outcomes :
       \E after \in {IF sol.raised THEN args.resp_matrix ELSE written} :
       \E out \in {CorrectionFinish(Session, alpha, sol, fault)} :
        /\ hcors' = SubSeq(out.cors, 1, Len(hcors))
        /\ vcors' = SubSeq(out.cors, Len(hcors) + 1, Len(out.cors))
        /\ response_matrix' =
              IF args.shares_stored
              THEN [response_matrix EXCEPT !.matrix = after]
              ELSE response_matrix
        /\ last' = [op |-> "correction", status |-> out.status, alpha |-> alpha,
                    beta |-> beta, fault |-> fault, angle |-> out.angle,
                    before |-> Session,
                    swapped |-> after # args.resp_matrix]
    /\ ncalls' = ncalls + 1
    /\ UNCHANGED <<bpms, disp_response_matrix, orbit_solver, mic, lat, meas, lp>>

NextFrame ==
    \/ \E alpha \in {RZero, Half}, beta \in Betas : CorrectionCall(alpha, beta)
    \/ \E i \in 1..Len(bpms), r \in Readings : SetReading(i, r)
    \/ \E solver \in FrameSolvers : SetSolver(solver)

SpecFrame == InitFrame /\ [][NextFrame]_vars

(* C13: a correction call, with any of the three solvers and after any
   calls before it, leaves the stored orbit and dispersion response matrices,
   the monitors with their readings, references and weights, and the
   membership and order of bpms, hcors and vcors as they were; only corrector
   angles change. *)
C13_OnlyAnglesChange ==
    Corrected =>
        /\ response_matrix = last.before.response_matrix
        /\ disp_response_matrix = last.before.disp_response_matrix
        /\ bpms = last.before.bpms
        /\ Ids(hcors) = Ids(last.before.hcors)
        /\ Ids(vcors) = Ids(last.before.vcors)

\* a second call, with MICADO, that swapped columns of the matrix it was
\* handed and changed a corrector
C13_Witness ==
    /\ CallReturned
    /\ ncalls = MaxFrameCalls
    /\ last.before.orbit_solver.kind = "MICADO"
    /\ last.swapped
    /\ ~Untouched
====
